---------------------------- MODULE Spec2Model ----------------------------
(***************************************************************************)
(* A model of checksums.py: the sumfile codec (read_sumfile,               *)
(* write_sumfile), the exclusion filter (is_excluded) and the driver loop  *)
(* of __main__ (create / refresh / reset / verify) over one directory.     *)
(*                                                                         *)
(* Text is modelled as sequences of one-character strings, so that        *)
(* str.strip, the two regular expressions and the line format are         *)
(* computed, not assumed.                                                  *)
(***************************************************************************)
EXTENDS Integers, Sequences, FiniteSets, TLC

(***************************************************************************)
(* Characters and strings                                                  *)
(***************************************************************************)

\* str.isspace / the regex class \s, restricted to the characters used here.
IsSpace(c) == c \in {" ", "\t", "\n"}

HexDigits ==
    {"0", "1", "2", "3", "4", "5", "6", "7", "8", "9",
     "a", "b", "c", "d", "e", "f", "A", "B", "C", "D", "E", "F"}

\* [a-fA-F0-9]
IsHex(c) == c \in HexDigits

UpperToLower ==
    [c \in {"A", "B", "C", "D", "E", "F", "G", "H", "I", "J", "K", "L", "M",
            "N", "O", "P", "Q", "R", "S", "T", "U", "V", "W", "X", "Y", "Z"} |->
        CASE c = "A" -> "a" [] c = "B" -> "b" [] c = "C" -> "c" [] c = "D" -> "d"
          [] c = "E" -> "e" [] c = "F" -> "f" [] c = "G" -> "g" [] c = "H" -> "h"
          [] c = "I" -> "i" [] c = "J" -> "j" [] c = "K" -> "k" [] c = "L" -> "l"
          [] c = "M" -> "m" [] c = "N" -> "n" [] c = "O" -> "o" [] c = "P" -> "p"
          [] c = "Q" -> "q" [] c = "R" -> "r" [] c = "S" -> "s" [] c = "T" -> "t"
          [] c = "U" -> "u" [] c = "V" -> "v" [] c = "W" -> "w" [] c = "X" -> "x"
          [] c = "Y" -> "y" [] OTHER -> "z"]

LowerChar(c) == IF c \in DOMAIN UpperToLower THEN UpperToLower[c] ELSE c

\* casefold with a fault: the letter case is kept.
casefold_exact(s) == s

\* str.casefold on the ASCII strings of the model.
casefold(s) == [i \in 1..Len(s) |-> LowerChar(s[i])]

\* s[i:] (1-based, inclusive; empty when i > Len(s)).
Drop(s, i) == IF i > Len(s) THEN <<>> ELSE SubSeq(s, i, Len(s))

\* s.endswith(t)
EndsWith(s, t) ==
    /\ Len(s) >= Len(t)
    /\ SubSeq(s, Len(s) - Len(t) + 1, Len(s)) = t

RECURSIVE LStrip(_)
LStrip(s) == IF s # <<>> /\ IsSpace(Head(s)) THEN LStrip(Tail(s)) ELSE s

RECURSIVE RStrip(_)
RStrip(s) ==
    IF s # <<>> /\ IsSpace(s[Len(s)]) THEN RStrip(SubSeq(s, 1, Len(s) - 1)) ELSE s

\* str.strip()
Strip(s) == LStrip(RStrip(s))

\* Iterating a text file: the lines, each with its terminator.
RECURSIVE SplitLines(_)
SplitLines(t) ==
    IF t = <<>> THEN <<>>
    ELSE LET nl == {i \in 1..Len(t) : t[i] = "\n"}
         IN  IF nl = {} THEN <<t>>
             ELSE LET p == CHOOSE i \in nl : \A j \in nl : i <= j
                  IN  <<SubSeq(t, 1, p)>> \o SplitLines(Drop(t, p + 1))

(***************************************************************************)
(* Constants of the program                                                *)
(***************************************************************************)

SUMFILE_NAME ==
    <<".", "c", "h", "e", "c", "k", "s", "u", "m", "s", ".", "s", "h", "a", "2", "5", "6">>

SUMFILE_DELIMITER == <<" ", " ">>

RecycleBin == <<"$", "R", "E", "C", "Y", "C", "L", "E", ".", "B", "I", "N">>

VolumeInfo ==
    <<"S", "y", "s", "t", "e", "m", " ", "V", "o", "l", "u", "m", "e", " ",
      "I", "n", "f", "o", "r", "m", "a", "t", "i", "o", "n">>

EXCLUDED_DIRS == {RecycleBin, VolumeInfo}

DesktopIni == <<"d", "e", "s", "k", "t", "o", "p", ".", "i", "n", "i">>

Sha256Suffix == <<".", "s", "h", "a", "2", "5", "6">>

EXCLUDED_FILES == {DesktopIni, <<"*">> \o Sha256Suffix}

\* The length of a SHA-256 hex digest, {64} in both regular expressions.
DigestLen == 64

(***************************************************************************)
(* is_excluded: fnmatch(name, p) for some p in patterns                    *)
(***************************************************************************)

\* os.path.normcase on the platform of ctypes.windll: lower case.
NormCase(s) == [i \in 1..Len(s) |-> IF s[i] = "/" THEN "\\" ELSE LowerChar(s[i])]

\* fnmatchcase for patterns of literals, * and ? (the program's patterns hold
\* no character class).
RECURSIVE GlobMatch(_, _)
GlobMatch(name, pat) ==
    IF pat = <<>> THEN name = <<>>
    ELSE IF Head(pat) = "*"
         THEN \E k \in 0..Len(name) : GlobMatch(Drop(name, k + 1), Tail(pat))
         ELSE /\ name # <<>>
              /\ Head(pat) = "?" \/ Head(pat) = Head(name)
              /\ GlobMatch(Tail(name), Tail(pat))

fnmatch(name, pat) == GlobMatch(NormCase(name), NormCase(pat))

is_excluded(name, patterns) == \E p \in patterns : fnmatch(name, p)

(***************************************************************************)
(* The ordered mapping (dict) filename -> checksum                         *)
(***************************************************************************)

\* A dict is a sequence of <<key, value>> in insertion order, keys distinct.
Keys(d) == {d[i][1] : i \in 1..Len(d)}

Get(d, k) == LET i == CHOOSE j \in 1..Len(d) : d[j][1] = k IN d[i][2]

\* d[k] = v: a present key keeps its place and takes the value.
Put(d, k, v) ==
    IF k \in Keys(d)
    THEN [i \in 1..Len(d) |-> IF d[i][1] = k THEN <<k, v>> ELSE d[i]]
    ELSE Append(d, <<k, v>>)

(***************************************************************************)
(* read_sumfile                                                            *)
(***************************************************************************)

AllHex(s) == \A i \in 1..Len(s) : IsHex(s[i])

\* re_sumfile_gnu.match(line): <<matched, filename, checksum>>.
\* [a-fA-F0-9]{64} (\s{2}|\s\*) .+
MatchGnu(line) ==
    IF /\ Len(line) >= DigestLen + 3
       /\ AllHex(SubSeq(line, 1, DigestLen))
       /\ IsSpace(line[DigestLen + 1])
       /\ IsSpace(line[DigestLen + 2]) \/ line[DigestLen + 2] = "*"
       /\ line[DigestLen + 3] # "\n"
    THEN <<TRUE, Drop(line, DigestLen + 3), SubSeq(line, 1, DigestLen)>>
    ELSE <<FALSE, <<>>, <<>>>>

BsdPrefix == <<"S", "H", "A", "2", "5", "6">>

\* The places p of a ")" that can end the filename group of re_sumfile_bsd.
BsdCloses(line) ==
    {p \in (Len(BsdPrefix) + 4)..(Len(line) - 3 - DigestLen) :
        /\ line[p] = ")"
        /\ IsSpace(line[p + 1])
        /\ line[p + 2] = "="
        /\ IsSpace(line[p + 3])
        /\ AllHex(SubSeq(line, p + 4, p + 3 + DigestLen))}

\* re_sumfile_bsd.match(line): SHA256 \s \( .+ \) \s = \s [a-fA-F0-9]{64};
\* the greedy .+ ends at the last ")" after which the rest matches.
MatchBsd(line) ==
    IF /\ Len(line) >= Len(BsdPrefix) + 2
       /\ SubSeq(line, 1, Len(BsdPrefix)) = BsdPrefix
       /\ IsSpace(line[Len(BsdPrefix) + 1])
       /\ line[Len(BsdPrefix) + 2] = "("
       /\ BsdCloses(line) # {}
    THEN LET p == CHOOSE q \in BsdCloses(line) : \A r \in BsdCloses(line) : r <= q
         IN  <<TRUE, SubSeq(line, Len(BsdPrefix) + 3, p - 1),
               SubSeq(line, p + 4, p + 3 + DigestLen)>>
    ELSE <<FALSE, <<>>, <<>>>>

\* One line of the loop of read_sumfile: "skip" (blank or comment),
\* "error" (ValueError) or "entry" with the filename and checksum.
ParseLine(raw) ==
    LET line == Strip(raw)
        g == MatchGnu(line)
        b == MatchBsd(line)
    IN  IF line = <<>> \/ line[1] \in {"#", ";"} THEN <<"skip", <<>>, <<>>>>
        ELSE IF g[1] THEN <<"entry", g[2], g[3]>>
        ELSE IF b[1] THEN <<"entry", b[2], b[3]>>
        ELSE <<"error", <<>>, <<>>>>

\* Retained with a fault: an entry is kept whether or not its path exists.
Retained_always(name, exists) == TRUE

\* path.exists(path.join(dpath, filename)): the entry is kept.
Retained(name, exists) == name \in exists

\* ReadLines with a fault: a line that does not parse is passed over.
RECURSIVE ReadLines_lenient(_, _, _)
ReadLines_lenient(lines, acc, exists) ==
    IF lines = <<>> THEN <<TRUE, acc>>
    ELSE LET r == ParseLine(Head(lines))
         IN  IF r[1] # "entry" \/ ~Retained(r[2], exists)
             THEN ReadLines_lenient(Tail(lines), acc, exists)
             ELSE ReadLines_lenient(Tail(lines), Put(acc, r[2], r[3]), exists)

\* The loop of read_sumfile over the lines, from the mapping acc; exists is
\* the set of names for which path.exists(path.join(dpath, name)) holds.
\* <<ok, checksums>>; ok = FALSE is the ValueError.
RECURSIVE ReadLines(_, _, _)
ReadLines(lines, acc, exists) ==
    IF lines = <<>> THEN <<TRUE, acc>>
    ELSE LET r == ParseLine(Head(lines))
         IN  IF r[1] = "error" THEN <<FALSE, <<>>>>
             ELSE IF r[1] = "skip" \/ ~Retained(r[2], exists)
                  THEN ReadLines(Tail(lines), acc, exists)
                  ELSE ReadLines(Tail(lines), Put(acc, r[2], r[3]), exists)

read_sumfile(text, exists) == ReadLines(SplitLines(text), <<>>, exists)

(***************************************************************************)
(* write_sumfile: the text written                                         *)
(***************************************************************************)

RECURSIVE SumfileText(_)
SumfileText(data) ==
    IF data = <<>> THEN <<>>
    ELSE Head(data)[2] \o SUMFILE_DELIMITER \o Head(data)[1] \o <<"\n">>
         \o SumfileText(Tail(data))


(***************************************************************************)
(* The directory, its files and the run                                    *)
(***************************************************************************)

\* Bounds of the model.
MaxRuns == 2
MaxEnv == 1
MaxClock == 3
MaxEntries == 2
MaxLines == 2

NameA == <<"a">>

\* A name that ends in a character str.strip() removes.
NameB == <<"a", " ">>

\* Names that begin with a space, with a comment character, with the marker
\* of the GNU binary form.
NameLead == <<" ", "b">>
NameHash == <<"#", "c">>
NameSemi == <<";", "d">>
NameStar == <<"*", "e">>

\* A subdirectory of the directory: a path that exists and is no file.
SubDir == <<"s", "u", "b">>

\* The opt-out marker of the walk guard.
Sentinel == <<".", "n", "o", "c", "h", "e", "c", "k", "s", "u", "m", "s">>

\* A directory at the top of a walk, as os.walk names it.
RootPath == <<"r">>

\* A second manifest of the directory, as another tool names it.
OtherSum == <<"b">> \o Sha256Suffix

\* The regular files a directory of the model may hold.
FileNames == {NameA, NameB, DesktopIni, NameLead, NameHash, NameSemi, NameStar}

\* The names of the directory beside SUMFILE_NAME: the regular files, the
\* opt-out marker and the second manifest.
DiskNames == FileNames \cup {Sentinel, OtherSum}

\* The files of the directory in the runs of the driver.
RunNames == {NameA, NameB, DesktopIni}

\* The order in which os.walk lists the names.
ListingOrder ==
    <<NameA, NameB, DesktopIni, NameLead, NameHash, NameSemi, NameStar, SUMFILE_NAME,
      OtherSum, Sentinel>>

\* hashlib.sha256(...).hexdigest() of the content numbered c: 64 lower-case
\* hex characters, different for different contents.
Sha256Hex(c) ==
    [i \in 1..DigestLen |-> IF i = 1 THEN (IF c = 1 THEN "1" ELSE "2") ELSE "a"]

\* The same digest as another tool may have written it: upper case.
UpperHex(d) == [i \in 1..Len(d) |-> IF d[i] = "a" THEN "A" ELSE d[i]]

GnuLine(d, name) == d \o <<" ", " ">> \o name \o <<"\n">>

GnuBinaryLine(d, name) == d \o <<" ", "*">> \o name \o <<"\n">>

BsdLine(d, name) ==
    BsdPrefix \o <<" ", "(">> \o name \o <<")", " ", "=", " ">> \o d \o <<"\n">>

CommentLine == <<"#", " ", "x", "\n">>

\* A line whose digest has 63 hex characters.
ShortLine == SubSeq(Sha256Hex(1), 1, DigestLen - 1) \o <<" ", " ">> \o NameA \o <<"\n">>

\* The manifests a directory may hold before the first run (written by this
\* program, by another tool or by hand).
InitTexts ==
    { GnuLine(UpperHex(Sha256Hex(1)), NameA),
      CommentLine \o BsdLine(Sha256Hex(2), NameA) \o <<"\n">>,
      GnuBinaryLine(Sha256Hex(1), DesktopIni) \o GnuLine(Sha256Hex(1), SubDir),
      GnuLine(Sha256Hex(1), NameA) \o ShortLine }

\* The text of the second manifest: one entry for the file a.
OtherText == GnuLine(Sha256Hex(2), NameA)

\* The paths os.walk may yield for the directory: the top of a walk as the
\* argument root names it, or a directory below the top (path.join of the two).
WalkPaths == {RootPath, RecycleBin, RootPath \o <<"\\">> \o RecycleBin}

Unset == <<"unset">>

NoArgs == [create |-> FALSE, verify |-> FALSE, reset |-> FALSE, refresh |-> FALSE,
           hidden |-> FALSE]

\* The argument sets argparse accepts: one of -c / -v, at most one of
\* --reset / --refresh.
ArgSets ==
    {a \in [create : BOOLEAN, verify : BOOLEAN, reset : BOOLEAN, refresh : BOOLEAN,
            hidden : BOOLEAN] :
        /\ a.create # a.verify
        /\ ~(a.reset /\ a.refresh)}

VARIABLES
    fs,             \* the regular files: name -> [st, content, mtime, attrs]
    sumSt,          \* "absent" | "present" | "denied": the file SUMFILE_NAME
    sumText,        \* its text
    sumMtime,       \* its modification time
    sumAttrs,       \* its attribute bits
    rootAttrs,      \* the attribute bits of the directory
    root,           \* the path os.walk yields for the directory
    clock,          \* the time of the filesystem
    args,           \* the parsed arguments of the run
    pc,             \* the position of the run
    files,          \* the listing os.walk gave for the directory
    idx,            \* the position of the loop over files
    checksums,      \* the mapping of the directory (create), of the manifest (verify)
    checksums_mtime,
    write,
    vidx,           \* the position of the loop over checksums.items() (verify)
    checksum_new,   \* the module-level name checksum_new, Unset before its first binding
    out,            \* the report lines printed by the run
    exc,            \* the exception that ended the run, "" if none
    run,            \* the runs started
    envLeft,        \* the changes the environment may still make
    loaded,         \* history: the mapping as loaded for the directory
    called,         \* history: the names get_checksum was called with, this run
    hashed,         \* history: the names get_checksum returned a digest for, this run
    wrote,          \* history: write_sumfile was called, this run
    prevArgs,       \* history: the arguments of the run before
    owed,           \* history: the stale files a run left unhashed when it wrote
    loads,          \* history: the calls of read_sumfile of this run, in order
    lastEnvRun,     \* history: the value of run at the last change of the environment
    tested,         \* history: the outcomes of the tests of lines 153-168, this run
    last            \* history: what the last step of the run did

vars ==
    <<fs, sumSt, sumText, sumMtime, sumAttrs, rootAttrs, clock, args, pc, files, idx,
      checksums, checksums_mtime, write, vidx, checksum_new, out, exc, run, envLeft,
      loaded, called, hashed, wrote, prevArgs, lastEnvRun, tested, last, root, owed,
      loads>>

fsVars == <<fs, sumSt, sumText, sumMtime, sumAttrs, rootAttrs, root, clock>>

histVars == <<loaded, called, hashed, wrote, prevArgs, lastEnvRun, tested, owed, loads>>

\* What a step of the run did: the operation, the name it was about, its
\* outcome, the markers it printed, and what it read (the file's mtime, whether
\* the mapping held the name, the stored and the compared digest); for
\* write_sumfile the call of the system that failed, the attribute bits of the
\* manifest before the call and when it was opened (-1: not opened); whether
\* the step called get_attributes.
NoStep ==
    [op |-> "none", f |-> <<>>, res |-> "", printed |-> <<>>, mtime |-> 0,
     had |-> FALSE, old |-> <<>>, new |-> <<>>, fault |-> "", pre |-> 0,
     atopen |-> -1, queried |-> FALSE]

\* The attribute bits of a file open(..., 'w') creates: FILE_ATTRIBUTE_ARCHIVE.
NewFileAttrs == 32

\* attrs & 0x02 != 0
is_hidden(attrs) == (attrs \div 2) % 2 = 1

\* attrs | 0x03
ProtectBits(attrs) == attrs + (3 - (attrs % 4))

\* UnprotectBits with a fault: no bit is cleared.
UnprotectBits_none(attrs) == attrs

\* attrs & ~0x03
UnprotectBits(attrs) == attrs - (attrs % 4)

\* The calls of write_sumfile the system may refuse: SetFileAttributesW in
\* unprotect_file, open, SetFileAttributesW in protect_file.
WriteFaults == {"none", "unprotect", "open", "protect"}

\* The exception of set_attributes: IOError, which is OSError and no
\* PermissionError.
AttrError == "OSError"

\* write_sumfile(sumfile, data) on a manifest in the state st ("absent",
\* "present", or "denied": it exists and refuses to open) with the bits
\* attrs and the text text, when the call fault fails: the exception ("" if
\* none), the manifest afterwards, the bits it had when it was opened (-1: not
\* opened) and whether the text was written.
write_sumfile(st, attrs, text, data, fault) ==
    LET existed == st # "absent"
        cleared == IF existed THEN UnprotectBits(attrs) ELSE NewFileAttrs
    IN  CASE fault = "unprotect" /\ existed ->
               [exc |-> AttrError, st |-> st, text |-> text, attrs |-> attrs,
                atopen |-> -1, written |-> FALSE]
          [] fault = "open" \/ st = "denied" ->
               [exc |-> "PermissionError", st |-> st, text |-> text,
                attrs |-> IF existed THEN cleared ELSE attrs,
                atopen |-> -1, written |-> FALSE]
          [] fault = "protect" ->
               [exc |-> AttrError, st |-> "present", text |-> SumfileText(data),
                attrs |-> cleared, atopen |-> cleared, written |-> TRUE]
          [] OTHER ->
               [exc |-> "", st |-> "present", text |-> SumfileText(data),
                attrs |-> ProtectBits(cleared), atopen |-> cleared, written |-> TRUE]

\* The state of a name of the directory: "ok", "denied" (it exists and cannot
\* be read), "gone" (deleted since it was listed) or "absent".
StOf(f) ==
    IF f = SUMFILE_NAME
    THEN (CASE sumSt = "present" -> "ok" [] sumSt = "denied" -> "denied" [] OTHER -> "gone")
    ELSE IF f \in DiskNames THEN fs[f].st
    ELSE IF f = SubDir THEN "denied"
    ELSE "gone"

OnDisk(f) == StOf(f) \in {"ok", "denied"}

AttrsOf(f) == IF f = SUMFILE_NAME THEN sumAttrs ELSE fs[f].attrs

MtimeOf(f) == IF f = SUMFILE_NAME THEN sumMtime ELSE fs[f].mtime

\* The names n for which path.exists(path.join(root, n)) holds.
ExistingPaths == {f \in DiskNames \cup {SUMFILE_NAME} : OnDisk(f)} \cup {SubDir}

\* The text of a manifest of the directory.
TextOf(f) == IF f = SUMFILE_NAME THEN sumText ELSE OtherText

\* read_sumfile(path.join(root, f)): open (line 76) raises PermissionError on
\* a manifest that refuses to open, a line that does not parse ValueError; the
\* except clauses of lines 146 and 199 catch both.  <<exception, checksums>>,
\* "" if none.
Load(f) ==
    IF StOf(f) = "denied" THEN <<"PermissionError", <<>>>>
    ELSE LET r == read_sumfile(TextOf(f), ExistingPaths)
         IN  <<IF r[1] THEN "" ELSE "ValueError", r[2]>>

\* A call of read_sumfile as the history keeps it: the manifest, the paths
\* that existed at the call and the exception.
LoadOf(f) == [m |-> f, exists |-> ExistingPaths, exc |-> Load(f)[1]]

\* The files of the directory as os.walk lists them.
Listing == SelectSeq(ListingOrder, LAMBDA f : OnDisk(f))

Line(m, f) == <<m, f>>

(***************************************************************************)
(* Initial states                                                          *)
(***************************************************************************)

GoneFile == [st |-> "gone", content |-> 1, mtime |-> 1, attrs |-> NewFileAttrs]

PlainFile == [st |-> "ok", content |-> 1, mtime |-> 1, attrs |-> NewFileAttrs]

InitRun ==
    /\ args = NoArgs
    /\ pc = "idle"
    /\ files = <<>>
    /\ idx = 0
    /\ checksums = <<>>
    /\ checksums_mtime = 0
    /\ write = FALSE
    /\ vidx = 0
    /\ checksum_new = Unset
    /\ out = <<>>
    /\ exc = ""
    /\ run = 0
    /\ envLeft = MaxEnv
    /\ loaded = <<>>
    /\ called = {}
    /\ hashed = {}
    /\ wrote = FALSE
    /\ prevArgs = NoArgs
    /\ lastEnvRun = -1
    /\ tested = {}
    /\ last = NoStep
    /\ owed = [run |-> 0, names |-> {}]
    /\ loads = <<>>

\* The states a file may be in before the first run: missing, plain, modified
\* later, unreadable, hidden.
InitFileStates ==
    { GoneFile, PlainFile, [PlainFile EXCEPT !.mtime = 2],
      [PlainFile EXCEPT !.st = "denied", !.mtime = 2],
      [PlainFile EXCEPT !.attrs = NewFileAttrs + 2] }

\* FILE_ATTRIBUTE_DIRECTORY, and the same with FILE_ATTRIBUTE_HIDDEN.
DirAttrs == 16

HiddenDirAttrs == 18

\* The directory before the first run: its path, its attribute bits, whether
\* it holds the opt-out marker and the second manifest.
BaseScene == [root |-> RootPath, attrs |-> DirAttrs, sentinel |-> FALSE, other |-> FALSE]

Scenes ==
    { BaseScene,
      [BaseScene EXCEPT !.root = RecycleBin],
      [BaseScene EXCEPT !.root = RootPath \o <<"\\">> \o RecycleBin],
      [BaseScene EXCEPT !.attrs = HiddenDirAttrs],
      [BaseScene EXCEPT !.sentinel = TRUE],
      [BaseScene EXCEPT !.sentinel = TRUE, !.attrs = HiddenDirAttrs],
      [BaseScene EXCEPT !.other = TRUE] }

\* The files of a scene: in the base scene the file a in any state and beside
\* it the file "a " or desktop.ini or neither; in the other scenes the file a
\* alone, plain or modified later.
InitFiles(sc) ==
    { [f \in DiskNames |->
          CASE f = NameA -> a
            [] f = NameB -> bd[1]
            [] f = DesktopIni -> bd[2]
            [] f = Sentinel -> IF sc.sentinel THEN PlainFile ELSE GoneFile
            [] f = OtherSum -> IF sc.other THEN PlainFile ELSE GoneFile
            [] OTHER -> GoneFile] :
      a \in IF sc = BaseScene THEN InitFileStates
            ELSE {PlainFile, [PlainFile EXCEPT !.mtime = 2]},
      bd \in IF sc = BaseScene
             THEN { <<GoneFile, GoneFile>>, <<PlainFile, GoneFile>>,
                    <<GoneFile, [PlainFile EXCEPT !.mtime = 2]>> }
             ELSE { <<GoneFile, GoneFile>> } }

\* The manifests of a scene that exist and open: any in the base scene, in
\* the other scenes one that loads and one with a malformed line.
SceneTexts(sc) ==
    IF sc = BaseScene THEN InitTexts
    ELSE { GnuLine(UpperHex(Sha256Hex(1)), NameA),
           GnuLine(Sha256Hex(1), NameA) \o ShortLine }

Init ==
    /\ \E sc \in Scenes :
         /\ root = sc.root
         /\ rootAttrs = sc.attrs
         /\ fs \in InitFiles(sc)
         /\ \/ sumSt = "absent" /\ sumText = <<>> /\ sumMtime = 0 /\ sumAttrs = 0
            \/ sumSt = "present" /\ sumText \in SceneTexts(sc) /\ sumMtime = 1
               /\ sumAttrs = NewFileAttrs
            \/ /\ sumSt = "denied"
               /\ sumText = GnuLine(UpperHex(Sha256Hex(1)), NameA)
               /\ sumMtime = 1 /\ sumAttrs = NewFileAttrs
               /\ fs[NameB].st = "gone" /\ fs[DesktopIni].st = "gone"
    /\ clock = 2
    /\ InitRun

(***************************************************************************)
(* The run: __main__                                                       *)
(***************************************************************************)

\* A new process: argparse, then the walk.
StartRun(a) ==
    /\ pc \in {"idle", "done", "crashed"}
    /\ run < MaxRuns
    /\ args' = a
    /\ prevArgs' = args
    /\ run' = run + 1
    /\ pc' = "walk"
    /\ files' = <<>>
    /\ idx' = 0
    /\ checksums' = <<>>
    /\ checksums_mtime' = 0
    /\ write' = FALSE
    /\ vidx' = 0
    /\ checksum_new' = Unset
    /\ out' = <<>>
    /\ exc' = ""
    /\ loaded' = <<>>
    /\ called' = {}
    /\ hashed' = {}
    /\ wrote' = FALSE
    /\ tested' = {}
    /\ last' = NoStep
    /\ loads' = <<>>
    /\ UNCHANGED <<fsVars, envLeft, lastEnvRun, owed>>

HasSentinel(ls) == \E i \in 1..Len(ls) : ls[i] = Sentinel

\* SkipsEarly with a fault: the opt-out marker is not looked for.
SkipsEarly_nomarker(ls) == ls = <<>>

\* The guard of line 127.
SkipsEarly(ls) == ls = <<>> \/ HasSentinel(ls)

\* The guard of line 130: the path os.walk yields is matched, not its last
\* component.
SkipsExcluded == is_excluded(root, EXCLUDED_DIRS)

\* Line 133 reaches is_hidden(root): the guards before did not skip and hidden
\* items are not requested.
QueriesRoot(ls) == ~SkipsEarly(ls) /\ ~SkipsExcluded /\ ~args.hidden

\* The walk guards of lines 127-134.
DirSkipped(ls) ==
    \/ SkipsEarly(ls)
    \/ SkipsExcluded
    \/ QueriesRoot(ls) /\ is_hidden(rootAttrs)

\* os.walk yields the directory; the guards; in create mode the manifest is
\* loaded (lines 137-148).
Visit ==
    /\ pc = "walk"
    /\ LET ls == Listing
           r == Load(SUMFILE_NAME)
           step == [NoStep EXCEPT !.op = "visit", !.queried = QueriesRoot(ls)]
       IN  /\ files' = ls
           /\ IF DirSkipped(ls)
              THEN /\ pc' = "done"
                   /\ last' = [step EXCEPT !.res = "skipdir"]
                   /\ UNCHANGED <<idx, checksums, checksums_mtime, out, loaded, loads>>
              ELSE IF args.verify
              THEN /\ pc' = "vnext"
                   /\ idx' = 0
                   /\ last' = [step EXCEPT !.res = "verify"]
                   /\ UNCHANGED <<checksums, checksums_mtime, out, loaded, loads>>
              ELSE IF sumSt # "absent" /\ ~args.reset
              THEN /\ loads' = Append(loads, LoadOf(SUMFILE_NAME))
                   /\ IF r[1] = ""
                      THEN /\ checksums' = r[2]
                           /\ checksums_mtime' = sumMtime
                           /\ loaded' = r[2]
                           /\ pc' = "test"
                           /\ idx' = 1
                           /\ last' = [step EXCEPT !.res = "loaded"]
                           /\ out' = out
                      ELSE /\ out' = Append(out, Line("!", SUMFILE_NAME))
                           /\ pc' = "done"
                           /\ last' = [step EXCEPT !.res = "loadfailed",
                                                   !.printed = <<"!">>]
                           /\ UNCHANGED <<idx, checksums, checksums_mtime, loaded>>
              ELSE /\ pc' = "test"
                   /\ idx' = 1
                   /\ last' = [step EXCEPT !.res = "fresh"]
                   /\ UNCHANGED <<checksums, checksums_mtime, out, loaded, loads>>
    /\ UNCHANGED <<fsVars, args, write, vidx, checksum_new, exc, run, envLeft,
                   called, hashed, wrote, prevArgs, owed, lastEnvRun, tested>>

\* Stale with a fault: the comparison of line 165 as > instead of >=.
Stale_strict(sum_mtime, file_mtime, present) == ~(sum_mtime > file_mtime /\ present)

\* The refresh test of lines 163-168, negated: the file is hashed again.
Stale(sum_mtime, file_mtime, present) == ~(sum_mtime >= file_mtime /\ present)

\* KeepsStored with a fault: a name in the mapping is not passed over.
KeepsStored_never(refresh, present) == FALSE

\* The first test of line 154: the stored checksum is kept.
KeepsStored(refresh, present) == ~refresh /\ present

\* The outcome of the tests of lines 153-168 for the file f:
\* "kept", "crash", "filtered", "fresh" (skipped by the refresh test) or "hash".
TestOutcome(f) ==
    LET present == f \in Keys(checksums)
    IN  IF KeepsStored(args.refresh, present) THEN "kept"
        ELSE IF ~args.hidden /\ StOf(f) = "gone" THEN "crash"
        ELSE IF \/ ~args.hidden /\ is_hidden(AttrsOf(f))
                \/ is_excluded(f, EXCLUDED_FILES) THEN "filtered"
        ELSE IF args.refresh /\ StOf(f) = "gone" THEN "crash"
        ELSE IF args.refresh /\ ~Stale(checksums_mtime, MtimeOf(f), present) THEN "fresh"
        ELSE "hash"

\* The loop over files goes to its next name, or ends.
NextFile ==
    IF idx < Len(files)
    THEN idx' = idx + 1 /\ pc' = "test"
    ELSE idx' = idx /\ pc' = "write"

\* One iteration of the loop of line 150, up to the try of line 170.
FileTest ==
    /\ pc = "test"
    /\ LET f == files[idx]
           o == TestOutcome(f)
       IN  /\ last' = [NoStep EXCEPT !.op = "test", !.f = f, !.res = o,
                          !.mtime = IF StOf(f) = "gone" THEN 0 ELSE MtimeOf(f),
                          !.had = f \in Keys(checksums),
                          !.queried = o # "kept" /\ ~args.hidden]
           /\ IF o = "crash"
              THEN pc' = "crashed" /\ exc' = "FileNotFoundError" /\ idx' = idx
              ELSE IF o = "hash"
              THEN pc' = "hash" /\ exc' = exc /\ idx' = idx
              ELSE NextFile /\ exc' = exc
           /\ tested' = tested \cup {[f |-> f, res |-> o, mtime |-> last'.mtime,
                                       had |-> last'.had]}
    /\ UNCHANGED <<fsVars, args, files, checksums, checksums_mtime, write, vidx,
                   checksum_new, out, run, envLeft, loaded, called, hashed, wrote,
                   prevArgs, owed, loads, lastEnvRun>>

\* get_checksum(filepath): <<"ok", digest>>, or the exception.
get_checksum(f) ==
    CASE StOf(f) = "ok" -> <<"ok", Sha256Hex(fs[f].content)>>
      [] StOf(f) = "denied" -> <<"PermissionError", <<>>>>
      [] OTHER -> <<"FileNotFoundError", <<>>>>

\* The try of lines 170-180.
FileHash ==
    /\ pc = "hash"
    /\ LET f == files[idx]
           r == get_checksum(f)
           mark == CASE r[1] = "ok" -> "+"
                     [] r[1] = "PermissionError" -> "!"
                     [] OTHER -> "?"
       IN  /\ called' = called \cup {f}
           /\ out' = Append(out, Line(mark, f))
           /\ last' = [NoStep EXCEPT !.op = "hash", !.f = f, !.res = r[1],
                          !.printed = <<mark>>, !.had = f \in Keys(checksums),
                          !.new = r[2]]
           /\ IF r[1] = "ok"
              THEN /\ checksums' = Put(checksums, f, r[2])
                   /\ write' = TRUE
                   /\ hashed' = hashed \cup {f}
              ELSE UNCHANGED <<checksums, write, hashed>>
    /\ NextFile
    /\ UNCHANGED <<fsVars, args, files, checksums_mtime, vidx, checksum_new, exc, run,
                   envLeft, loaded, wrote, prevArgs, owed, loads, lastEnvRun, tested>>

\* The files of this run that had an entry, were newer than the manifest and
\* could not be read (get_checksum raised PermissionError, line 175), each
\* with its modification time.
StaleDenied ==
    {<<d.f, d.mtime>> : d \in {t \in tested : /\ t.res = "hash" /\ t.had
                                 /\ t.mtime > checksums_mtime
                                 /\ t.f \in called \ hashed
                                 /\ \E i \in 1..Len(out) : out[i] = Line("!", t.f)}}

\* The except clause of line 185: PermissionError is caught.
Caught(e) == e = "PermissionError"

\* Lines 182-186: write_sumfile is called if an entry was set and the mapping
\* is not empty; a PermissionError prints ! with the last filepath of the
\* loop, another exception ends the run.  A call the system refuses is a change
\* of the environment.
WriteDir ==
    /\ pc = "write"
    /\ IF write /\ checksums # <<>>
       THEN \E fault \in WriteFaults :
              /\ fault # "none" => envLeft > 0
              /\ fault = "unprotect" => sumSt = "present"
              /\ LET w == write_sumfile(sumSt, sumAttrs, sumText, checksums, fault)
                     mark == IF w.exc # "" /\ Caught(w.exc) THEN <<"!">> ELSE <<>>
                 IN  /\ sumText' = w.text
                     /\ sumSt' = w.st
                     /\ sumAttrs' = w.attrs
                     /\ sumMtime' = IF w.written THEN clock ELSE sumMtime
                     /\ wrote' = w.written
                     /\ out' = out \o [i \in 1..Len(mark) |->
                                          Line(mark[i], files[Len(files)])]
                     /\ IF w.exc = "" \/ Caught(w.exc)
                        THEN pc' = "done" /\ exc' = exc
                        ELSE pc' = "crashed" /\ exc' = w.exc
                     /\ last' = [NoStep EXCEPT !.op = "write",
                                    !.res = IF w.exc = "" THEN "written" ELSE w.exc,
                                    !.printed = mark, !.had = sumSt # "absent",
                                    !.fault = fault, !.pre = sumAttrs,
                                    !.atopen = w.atopen, !.queried = TRUE]
                     /\ owed' = IF w.exc = "" THEN [run |-> run, names |-> StaleDenied]
                                ELSE owed
              /\ envLeft' = IF fault = "none" THEN envLeft ELSE envLeft - 1
              /\ lastEnvRun' = IF fault = "none" THEN lastEnvRun ELSE run
       ELSE /\ UNCHANGED <<sumText, sumSt, sumMtime, sumAttrs, wrote, out, exc,
                           envLeft, lastEnvRun, owed>>
            /\ last' = [NoStep EXCEPT !.op = "write", !.res = "nowrite"]
            /\ pc' = "done"
    /\ UNCHANGED <<fs, rootAttrs, root, clock, args, files, idx, checksums, checksums_mtime,
                   write, vidx, checksum_new, run, loaded, called, hashed, prevArgs, loads,
                   tested>>

(***************************************************************************)
(* The run: verify                                                         *)
(***************************************************************************)

\* VerifyLeaves with a fault: the manifest is protected again after a step.
VerifyLeaves_protects ==
    /\ sumAttrs' = ProtectBits(sumAttrs)
    /\ UNCHANGED <<fs, sumSt, sumText, sumMtime, rootAttrs, root, clock>>

\* The verify branch (lines 187-214) calls read_sumfile, get_checksum and
\* print only: what is on disk stays.
VerifyLeaves == UNCHANGED fsVars

\* The places after i of the listing whose name ends in .sha256 (line 189).
SumfilesAfter(i) == {j \in (i + 1)..Len(files) : EndsWith(files[j], Sha256Suffix)}

\* The loop of line 188 goes to the next name that ends in .sha256, or the
\* walk ends.
NextSumfile ==
    IF SumfilesAfter(idx) # {}
    THEN /\ idx' = CHOOSE j \in SumfilesAfter(idx) : \A k \in SumfilesAfter(idx) : j <= k
         /\ pc' = "vnext"
    ELSE idx' = idx /\ pc' = "done"

\* Lines 188-201: the loop is entered (idx = 0), or the manifest at idx is
\* loaded if it is a file.
VerifyOpen ==
    /\ pc = "vnext"
    /\ LET f == IF idx = 0 THEN <<>> ELSE files[idx]
           r == Load(f)
       IN  IF idx = 0 \/ ~OnDisk(f)
           THEN /\ NextSumfile
                /\ last' = [NoStep EXCEPT !.op = "vopen", !.f = f, !.res = "nomanifest"]
                /\ UNCHANGED <<checksums, loaded, out, vidx, loads>>
           ELSE IF r[1] # ""
           THEN /\ NextSumfile
                /\ out' = Append(out, Line("!", f))
                /\ last' = [NoStep EXCEPT !.op = "vopen", !.f = f, !.res = "loadfailed",
                                          !.printed = <<"!">>]
                /\ loads' = Append(loads, LoadOf(f))
                /\ UNCHANGED <<checksums, loaded, vidx>>
           ELSE /\ checksums' = r[2]
                /\ loaded' = r[2]
                /\ loads' = Append(loads, LoadOf(f))
                /\ out' = out
                /\ last' = [NoStep EXCEPT !.op = "vopen", !.f = f, !.res = "loaded"]
                /\ IF r[2] = <<>>
                   THEN NextSumfile /\ vidx' = vidx
                   ELSE pc' = "ventry" /\ vidx' = 1 /\ idx' = idx
    /\ VerifyLeaves
    /\ UNCHANGED <<args, files, checksums_mtime, write, checksum_new, exc, run,
                   envLeft, called, hashed, wrote, prevArgs, owed, lastEnvRun, tested>>

\* The comparison of line 213.
Differs(new, old) == casefold(new) # casefold(old)

\* One iteration of the loop of lines 203-214.  After an exception the name
\* checksum_new keeps the value of an earlier iteration; unbound, reading it
\* raises NameError, which nothing catches.
VerifyEntry ==
    /\ pc = "ventry"
    /\ LET f == checksums[vidx][1]
           old == checksums[vidx][2]
           r == get_checksum(f)
           new == IF r[1] = "ok" THEN r[2] ELSE checksum_new
           p1 == CASE r[1] = "ok" -> <<>>
                   [] r[1] = "PermissionError" -> <<"!">>
                   [] OTHER -> <<"?">>
           p2 == IF new # Unset /\ Differs(new, old) THEN <<"X">> ELSE <<>>
           printed == p1 \o p2
       IN  /\ called' = called \cup {f}
           /\ hashed' = IF r[1] = "ok" THEN hashed \cup {f} ELSE hashed
           /\ checksum_new' = new
           /\ out' = out \o [i \in 1..Len(printed) |-> Line(printed[i], f)]
           /\ last' = [NoStep EXCEPT !.op = "ventry", !.f = f, !.res = r[1],
                          !.printed = printed, !.old = old, !.new = new]
           /\ IF new = Unset
              THEN pc' = "crashed" /\ exc' = "NameError" /\ UNCHANGED <<idx, vidx>>
              ELSE /\ exc' = exc
                   /\ IF vidx < Len(checksums)
                      THEN vidx' = vidx + 1 /\ pc' = "ventry" /\ idx' = idx
                      ELSE vidx' = vidx /\ NextSumfile
    /\ VerifyLeaves
    /\ UNCHANGED <<args, files, checksums, checksums_mtime, write, run, envLeft,
                   loaded, wrote, prevArgs, owed, loads, lastEnvRun, tested>>

(***************************************************************************)
(* The environment                                                         *)
(***************************************************************************)

\* Another process rewrites a file, once the first run has started (what it
\* did before is an initial state): new content, a later modification time.
EnvModify(f) ==
    /\ envLeft > 0
    /\ run > 0
    /\ clock < MaxClock
    /\ fs[f].st = "ok"
    /\ fs' = [fs EXCEPT ![f].content = 3 - @, ![f].mtime = clock + 1]
    /\ clock' = clock + 1
    /\ envLeft' = envLeft - 1
    /\ lastEnvRun' = run
    /\ UNCHANGED <<sumSt, sumText, sumMtime, sumAttrs, rootAttrs, root, args, pc, files, idx,
                   checksums, checksums_mtime, write, vidx, checksum_new, out, exc, run,
                   loaded, called, hashed, wrote, prevArgs, owed, loads, tested, last>>

\* Another process deletes a file, once the first run has started.
EnvVanish(f) ==
    /\ envLeft > 0
    /\ run > 0
    /\ fs[f].st # "gone"
    /\ fs' = [fs EXCEPT ![f].st = "gone"]
    /\ envLeft' = envLeft - 1
    /\ lastEnvRun' = run
    /\ UNCHANGED <<sumSt, sumText, sumMtime, sumAttrs, rootAttrs, root, clock, args, pc, files,
                   idx, checksums, checksums_mtime, write, vidx, checksum_new, out, exc,
                   run, loaded, called, hashed, wrote, prevArgs, owed, loads, tested, last>>

\* Another process makes an unreadable file readable, between two runs; its
\* content and its modification time stay.
EnvGrant(f) ==
    /\ envLeft > 0
    /\ pc \in {"done", "crashed"}
    /\ fs[f].st = "denied"
    /\ fs' = [fs EXCEPT ![f].st = "ok"]
    /\ envLeft' = envLeft - 1
    /\ lastEnvRun' = run
    /\ UNCHANGED <<sumSt, sumText, sumMtime, sumAttrs, rootAttrs, root, clock, args, pc,
                   files, idx, checksums, checksums_mtime, write, vidx, checksum_new,
                   out, exc, run, loaded, called, hashed, wrote, prevArgs, owed, loads,
                   tested, last>>

\* The arguments of the next run: the runs of one behaviour agree on
\* --include-hidden, and after the first run -v comes without --reset or
\* --refresh (the verify branch reads neither).
RunArgs ==
    IF run = 0 THEN ArgSets
    ELSE {a \in ArgSets : a.hidden = args.hidden /\ (a.verify => ~a.reset /\ ~a.refresh)}

\* The files the environment changes.
EnvNames == {NameA}

Next ==
    \/ \E a \in RunArgs : StartRun(a)
    \/ Visit
    \/ FileTest
    \/ FileHash
    \/ WriteDir
    \/ VerifyOpen
    \/ VerifyEntry
    \/ \E f \in EnvNames : EnvModify(f)
    \/ \E f \in EnvNames : EnvVanish(f)
    \/ \E f \in EnvNames : EnvGrant(f)

Spec == Init /\ [][Next]_vars

(***************************************************************************)
(* The codec alone: write_sumfile and read_sumfile applied to drawn inputs *)
(***************************************************************************)

\* The digests of a mapping: hex digests as get_checksum returns them, or as
\* loaded from a manifest in upper case.
CodecDigests == {Sha256Hex(1), UpperHex(Sha256Hex(2))}

CodecEntries == {<<f, d>> : f \in FileNames, d \in CodecDigests}

\* The mappings of at most MaxEntries entries, keys distinct.
Mappings ==
    UNION {{m \in [1..n -> CodecEntries] : \A i, j \in 1..n : i # j => m[i][1] # m[j][1]} :
           n \in 0..MaxEntries}

\* The lines a manifest given to read_sumfile is made of.
CodecLines ==
    { GnuLine(UpperHex(Sha256Hex(1)), NameA),
      GnuBinaryLine(Sha256Hex(1), DesktopIni),
      BsdLine(Sha256Hex(2), NameA),
      GnuLine(Sha256Hex(1), SubDir),
      GnuLine(Sha256Hex(2), NameStar),
      CommentLine,
      <<" ", "\n">>,
      ShortLine }

RECURSIVE Concat(_)
Concat(ss) == IF ss = <<>> THEN <<>> ELSE Head(ss) \o Concat(Tail(ss))

\* The manifests of at most MaxLines lines.
CodecTexts == {Concat(ls) : ls \in UNION {[1..n -> CodecLines] : n \in 0..MaxLines}}

AllFiles == [f \in DiskNames |-> IF f \in FileNames THEN PlainFile ELSE GoneFile]

\* The attribute bits of a manifest that exists: as open created it, as
\* protect_file left it, and the latter with FILE_ATTRIBUTE_SYSTEM (0x04) or
\* without FILE_ATTRIBUTE_ARCHIVE.
ManifestAttrs ==
    {NewFileAttrs, ProtectBits(NewFileAttrs), ProtectBits(NewFileAttrs) + 4, 3}

\* Either a mapping to write (every name of it on disk) where no manifest is
\* or over a manifest that is, or a manifest to read in a directory where the
\* file a is, or is not.
InitCodec ==
    /\ \/ /\ pc = "mapping"
          /\ checksums \in Mappings
          /\ fs = AllFiles
          /\ \/ sumSt = "absent" /\ sumText = <<>> /\ sumMtime = 0 /\ sumAttrs = 0
             \/ /\ sumSt = "present"
                /\ sumText = GnuLine(UpperHex(Sha256Hex(1)), NameA)
                /\ sumMtime = 1
                /\ sumAttrs \in ManifestAttrs
       \/ /\ pc = "given"
          /\ checksums = <<>>
          /\ fs \in {AllFiles, [AllFiles EXCEPT ![NameA] = GoneFile]}
          /\ sumSt = "present" /\ sumText \in CodecTexts /\ sumMtime = 1
          /\ sumAttrs = NewFileAttrs
    /\ rootAttrs = DirAttrs
    /\ root = RootPath
    /\ clock = 2
    /\ args = NoArgs
    /\ files = Listing
    /\ idx = 0
    /\ checksums_mtime = 0
    /\ write = FALSE
    /\ vidx = 0
    /\ checksum_new = Unset
    /\ out = <<>>
    /\ exc = ""
    /\ run = 0
    /\ envLeft = 0
    /\ loaded = <<>>
    /\ called = {}
    /\ hashed = {}
    /\ wrote = FALSE
    /\ prevArgs = NoArgs
    /\ lastEnvRun = -1
    /\ tested = {}
    /\ last = NoStep
    /\ owed = [run |-> 0, names |-> {}]
    /\ loads = <<>>

\* write_sumfile(sumfile, checksums), with the call the system refuses.
CodecWrite ==
    /\ pc = "mapping"
    /\ \E fault \in WriteFaults :
         /\ fault = "unprotect" => sumSt = "present"
         /\ LET w == write_sumfile(sumSt, sumAttrs, sumText, checksums, fault)
            IN  /\ sumText' = w.text
                /\ sumSt' = w.st
                /\ sumAttrs' = w.attrs
                /\ sumMtime' = IF w.written THEN clock ELSE sumMtime
                /\ wrote' = w.written
                /\ exc' = w.exc
                /\ pc' = IF w.written THEN "written" ELSE "refused"
                /\ last' = [NoStep EXCEPT !.op = "write",
                               !.res = IF w.exc = "" THEN "written" ELSE w.exc,
                               !.had = sumSt = "present", !.fault = fault,
                               !.pre = sumAttrs, !.atopen = w.atopen]
    /\ UNCHANGED <<fs, rootAttrs, root, clock, args, files, idx, checksums, checksums_mtime,
                   write, vidx, checksum_new, out, run, envLeft, loaded, called,
                   hashed, prevArgs, owed, loads, lastEnvRun, tested>>

\* read_sumfile(sumfile)
CodecRead ==
    /\ pc \in {"written", "given"}
    /\ LET r == Load(SUMFILE_NAME)
       IN  /\ loaded' = r[2]
           /\ exc' = r[1]
    /\ loads' = Append(loads, LoadOf(SUMFILE_NAME))
    /\ pc' = "read"
    /\ UNCHANGED <<fsVars, args, files, idx, checksums, checksums_mtime, write, vidx,
                   checksum_new, out, run, envLeft, called, hashed, wrote, prevArgs, owed,
                   lastEnvRun, tested, last>>

NextCodec == CodecWrite \/ CodecRead

SpecCodec == InitCodec /\ [][NextCodec]_vars

(***************************************************************************)
(* Properties                                                              *)
(***************************************************************************)

CreateOnly(a) == a.create /\ ~a.reset /\ ~a.refresh

Marks(m) == {i \in 1..Len(out) : out[i][1] = m}

\* The names a manifest text gives entries for, as read_sumfile loads it now.
ManifestKeys(text) == Keys(read_sumfile(text, ExistingPaths)[2])

\* C1: when create (no reset, no refresh) runs twice in a row and nothing
\* changed the directory since the first of the two runs started, the second
\* run hashes no file, prints no + line and writes no manifest.
C1_CreateIdempotent ==
    (/\ run >= 2
     /\ CreateOnly(args)
     /\ prevArgs = args
     /\ lastEnvRun < run - 1)
    => /\ hashed = {}
       /\ Marks("+") = {}
       /\ ~wrote

\* C2 as stated: under refresh, every file of the listing whose modification
\* time is strictly greater than the manifest's (0 if there is none) has been
\* hashed again when the pass over the directory is over.
C2_StalenessEveryFile ==
    (/\ args.create /\ args.refresh
     /\ pc = "done"
     /\ last.op = "write"
     /\ lastEnvRun < run)
    => \A i \in 1..Len(files) :
          MtimeOf(files[i]) > checksums_mtime => files[i] \in called

\* C2 amended: under refresh, for every file whose tests were reached and that
\* was not filtered as hidden or excluded: if its modification time was
\* strictly greater than the manifest's, get_checksum is called for it in the
\* run; if it was equal or earlier and the loaded mapping had an entry for it,
\* get_checksum is not called for it.
C2_StalenessTested ==
    (args.create /\ args.refresh)
    => \A d \in tested :
          d.res \notin {"filtered", "crash"}
          => /\ d.mtime > checksums_mtime
                => /\ d.res = "hash"
                   /\ d.f \in called \/ (pc = "hash" /\ files[idx] = d.f)
             /\ (d.mtime <= checksums_mtime /\ d.had)
                => /\ d.res = "fresh"
                   /\ d.f \notin called

\* C2 witness: a refresh run has hashed again a file that had an entry and was
\* newer than the manifest, and has passed over one that was not newer.
C2_Witness ==
    /\ args.create /\ args.refresh
    /\ \E d \in tested : d.had /\ d.mtime > checksums_mtime /\ d.f \in hashed

\* C3: no digest is computed for a name that matches a file exclusion pattern,
\* the mapping in memory holds no entry for it, and no manifest the program
\* wrote names it.
C3_ExclusionLaw ==
    /\ \A f \in called \cup Keys(checksums) : ~is_excluded(f, EXCLUDED_FILES)
    /\ wrote => \A f \in ManifestKeys(sumText) : ~is_excluded(f, EXCLUDED_FILES)

\* C4 as stated: every key of the mapping read_sumfile returns is a member of
\* the directory's file listing.
C4_PruningListing ==
    pc = "read" => \A k \in Keys(loaded) : \E i \in 1..Len(files) : files[i] = k

\* C4 amended: every key of the mapping read_sumfile returns names a path that
\* exists under the manifest's directory at load time, a file or a directory.
C4_PruningExists ==
    pc = "read" => \A k \in Keys(loaded) : k \in ExistingPaths

\* C4 witness: a manifest naming a subdirectory and a deleted file was read;
\* the entry of the subdirectory is kept and the other dropped.
C4_Witness ==
    /\ pc = "read"
    /\ ~OnDisk(NameA)
    /\ sumText = GnuLine(Sha256Hex(1), SubDir) \o BsdLine(Sha256Hex(2), NameA)
    /\ Keys(loaded) = {SubDir}

\* C5: read_sumfile after write_sumfile(m) returns m, for every mapping m of
\* hex digests whose names are all on disk.
C5_RoundTrip ==
    (pc = "read" /\ wrote) => (exc = "" /\ loaded = checksums)

\* C6: in verify, an entry whose file vanished after the load prints only ?,
\* an entry whose file cannot be read prints only !, and neither ends the run.
C6_VerifyOutcomes ==
    (args.verify /\ last.op = "ventry" /\ last.f \in FileNames)
    => /\ last.res = "FileNotFoundError" => last.printed = <<"?">>
       /\ last.res = "PermissionError" => last.printed = <<"!">>
       /\ pc # "crashed"

\* The two digests are equal when letter case is ignored.
SameIgnoringCase(a, b) ==
    /\ Len(a) = Len(b)
    /\ \A i \in 1..Len(a) : LowerChar(a[i]) = LowerChar(b[i])

\* C7: in verify, an entry whose file was hashed prints exactly one X line if
\* the recomputed digest differs from the stored one when letter case is
\* ignored, and nothing otherwise.
C7_VerifyCompare ==
    (args.verify /\ last.op = "ventry" /\ last.res = "ok")
    => /\ last.new = Sha256Hex(1) \/ last.new = Sha256Hex(2)
       /\ last.printed = IF SameIgnoringCase(last.new, last.old) THEN <<>> ELSE <<"X">>
       /\ Len(out) >= Len(last.printed)
       /\ \A i \in 1..Len(last.printed) :
             out[Len(out) - Len(last.printed) + i] = Line(last.printed[i], last.f)

\* C7 witness: an entry stored in upper case was compared with the lower-case
\* digest of its file and nothing was printed.
C7_Witness ==
    /\ args.verify /\ last.op = "ventry" /\ last.res = "ok"
    /\ last.old # last.new
    /\ last.printed = <<>>
    /\ out = <<>>

\* The line write_sumfile writes for an entry is a line of the manifest.
HasLine(text, k, d) ==
    \E i \in 1..Len(SplitLines(text)) : SplitLines(text)[i] = GnuLine(d, k)

\* C8: in create without reset or refresh, get_checksum is called for no name
\* the loaded mapping has an entry for, the mapping keeps the loaded digest of
\* every such name, and a manifest written by the run holds its line with that
\* digest.
C8_CreateKeepsStored ==
    CreateOnly(args)
    => \A k \in Keys(loaded) :
          /\ k \notin called
          /\ k \in Keys(checksums) /\ Get(checksums, k) = Get(loaded, k)
          /\ wrote => HasLine(sumText, k, Get(loaded, k))

\* C8 witness: a create run has written the manifest after hashing another
\* file, and kept the entry of a file whose content no longer has the stored
\* digest.
C8_Witness ==
    /\ CreateOnly(args) /\ pc = "done" /\ wrote
    /\ NameA \in Keys(loaded)
    /\ fs[NameA].st = "ok"
    /\ Sha256Hex(fs[NameA].content) # casefold(Get(loaded, NameA))
    /\ hashed # {}

\* C9: when a reset run has passed through a directory the walk guards did
\* not skip (no call of the system being refused), every file that was not
\* filtered has been given to get_checksum, and the manifest file holds no
\* entry for a file of the directory except for files hashed in this run.
C9_ResetDiscards ==
    (/\ args.create /\ args.reset /\ pc = "done"
     /\ last.op = "write" /\ last.fault \in {"", "none"})
    => /\ \A d \in tested : d.res # "filtered" => d.f \in called
       /\ sumSt = "present"
          => \A k \in ManifestKeys(sumText) \cap FileNames : k \in hashed

\* The report lines of the call of write_sumfile, the last of the run.
WriteMarks == IF last.op = "write" THEN last.printed ELSE <<>>

\* C10: in create, refresh and reset, a file reported ? has no entry in the
\* mapping; a file reported ! has its loaded entry if it had one, else none.
C10_HashFailure ==
    args.create
    => \A i \in 1..(Len(out) - Len(WriteMarks)) :
          LET f == out[i][2]
          IN  /\ out[i][1] = "?" => f \notin Keys(checksums)
              /\ (out[i][1] = "!" /\ f # SUMFILE_NAME)
                 => IF f \in Keys(loaded)
                    THEN f \in Keys(checksums) /\ Get(checksums, f) = Get(loaded, f)
                    ELSE f \notin Keys(checksums)

\* C11: in create, refresh and reset, when the pass over a directory is over:
\* the manifest was written in the run if and only if an entry was set in the
\* run and the mapping is not empty (no call of the system being refused), a
\* manifest written is not empty, and a directory whose mapping has no entry
\* has no manifest file.
C11_PersistRule ==
    (args.create /\ pc = "done" /\ last.op = "write")
    => /\ last.fault \in {"", "none"} => (wrote <=> (hashed # {} /\ checksums # <<>>))
       /\ wrote => sumText # <<>>
       /\ checksums = <<>> => sumSt = "absent"

\* C12: in create, refresh and reset, no exception ends the run: the walk
\* reaches its end whatever a file, the manifest or the system does.
C12_NoFatalError ==
    args.create => (pc # "crashed" /\ exc = "")

\* C13: when the system refuses to clear the protective attribute before the
\* write, or to set it after the write, write_sumfile raises PermissionError,
\* the run prints ! and goes on, and the manifest holds the new text.
C13_AttributeFailure ==
    (args.create /\ last.op = "write" /\ last.fault \in {"unprotect", "protect"})
    => /\ last.res = "PermissionError"
       /\ last.printed = <<"!">>
       /\ pc = "done"
       /\ sumSt = "present" /\ sumText = SumfileText(checksums)

\* A line of the text is neither blank, nor a comment, nor of the GNU or the
\* BSD form.
Malformed(text) ==
    \E i \in 1..Len(SplitLines(text)) : ParseLine(SplitLines(text)[i])[1] = "error"

\* The manifest f cannot be loaded: it refuses to open, or a line is malformed.
Unloadable(f) == StOf(f) = "denied" \/ Malformed(TextOf(f))

\* The place of the name f in the listing (0 if it is not listed).
PlaceOf(f) ==
    IF \E i \in 1..Len(files) : files[i] = f
    THEN CHOOSE i \in 1..Len(files) : files[i] = f
    ELSE 0

\* The manifests read_sumfile was called for in this run.
Loaded == {loads[i].m : i \in 1..Len(loads)}

\* C14: a manifest that refuses to open or holds a malformed line yields no
\* mapping.  In create and refresh the directory is then skipped with the one
\* line ! for the manifest: no file is hashed and nothing is written.  In
\* verify the manifest is passed over with one ! line and the loop goes on to
\* the next manifest of the listing; a verify run that ends has called
\* read_sumfile for every manifest of the listing.
C14_LoadFailsClosed ==
    /\ (/\ args.create /\ ~args.reset
        /\ pc \notin {"idle", "walk"}
        /\ ~DirSkipped(files)
        /\ sumSt # "absent"
        /\ Unloadable(SUMFILE_NAME))
       => /\ last.op = "visit" /\ last.res = "loadfailed"
          /\ checksums = <<>> /\ loaded = <<>>
          /\ out = <<Line("!", SUMFILE_NAME)>>
          /\ pc = "done"
          /\ called = {} /\ tested = {} /\ ~wrote
    /\ (args.verify /\ last.op = "vopen" /\ PlaceOf(last.f) > 0 /\ Unloadable(last.f))
       => /\ last.res = "loadfailed"
          /\ last.printed = <<"!">>
          /\ out # <<>> /\ out[Len(out)] = Line("!", last.f)
          /\ IF SumfilesAfter(PlaceOf(last.f)) = {}
             THEN pc = "done"
             ELSE /\ pc = "vnext"
                  /\ \A j \in SumfilesAfter(PlaceOf(last.f)) : idx <= j
                  /\ idx \in SumfilesAfter(PlaceOf(last.f))
    /\ (args.verify /\ pc = "done" /\ ~DirSkipped(files))
       => \A j \in SumfilesAfter(0) : files[j] \in Loaded

\* C14 witness: a verify run passed over a manifest with a malformed line,
\* printed ! for it, then verified the entry of the second manifest and ended.
C14_Witness ==
    /\ args.verify /\ pc = "done"
    /\ Malformed(sumText)
    /\ out # <<>> /\ out[1] = Line("!", SUMFILE_NAME)
    /\ last.op = "ventry" /\ last.res = "ok"
    /\ Loaded = {SUMFILE_NAME, OtherSum}

\* os.path.basename of a path of the walk: what follows the last separator.
BaseName(p) ==
    LET seps == {i \in 1..Len(p) : p[i] = "\\"}
    IN  IF seps = {} THEN p
        ELSE Drop(p, (CHOOSE i \in seps : \A j \in seps : j <= i) + 1)

\* C15: a directory whose name matches a directory exclusion pattern, or that
\* lists no file, or that is hidden while hidden items are not requested, is
\* passed over: read_sumfile is not called, no file is tested or hashed,
\* nothing is written and nothing is printed.
C15_DirectorySkipping ==
    (/\ pc \notin {"idle", "walk"}
     /\ \/ is_excluded(BaseName(root), EXCLUDED_DIRS)
        \/ files = <<>>
        \/ ~args.hidden /\ is_hidden(rootAttrs))
    => /\ loads = <<>> /\ loaded = <<>>
       /\ tested = {} /\ called = {}
       /\ ~wrote
       /\ out = <<>>

\* C16: in every mode, a directory whose listing holds .nochecksums is passed
\* over at the first guard: read_sumfile is not called, no file is tested or
\* hashed, no attribute is queried, nothing is written and nothing is printed.
C16_SentinelOptOut ==
    (pc \notin {"idle", "walk"} /\ HasSentinel(files))
    => /\ pc = "done"
       /\ last.op = "visit" /\ last.res = "skipdir" /\ ~last.queried
       /\ loads = <<>> /\ loaded = <<>> /\ checksums = <<>>
       /\ tested = {} /\ called = {} /\ hashed = {}
       /\ ~wrote
       /\ out = <<>>

\* C16 witness: a create run without --include-hidden has passed over a hidden
\* directory that holds the marker, a file and a manifest.
C16_Witness ==
    /\ args.create /\ ~args.hidden /\ pc = "done"
    /\ HasSentinel(files)
    /\ is_hidden(rootAttrs)
    /\ OnDisk(NameA) /\ sumSt = "present"
    /\ ~last.queried

\* C17: a step of a verify run (the start of the run, the walk guards, the
\* load of a manifest, the check of an entry, whatever its outcome) changes
\* no file, no manifest and no attribute.
C17_VerifyReadOnly ==
    [][(args'.verify /\ envLeft' = envLeft) => UNCHANGED fsVars]_vars

\* C17 witness: a verify run that followed a create run has ended after it
\* printed X for a file rewritten in between; the manifest is as the create
\* run left it.
C17_Witness ==
    /\ args.verify /\ pc = "done" /\ prevArgs.create
    /\ Marks("X") # {}
    /\ sumSt = "present" /\ sumAttrs = ProtectBits(NewFileAttrs)
    /\ sumText = SumfileText(checksums)

\* The attribute bits other than the protective ones (0x01, 0x02).
OtherBits(attrs) == attrs \div 4

\* C18: after a call of write_sumfile that raised nothing: a manifest that
\* existed had its protective bits cleared when it was opened for writing and
\* its other bits are as before the call; the text was written; the manifest
\* carries both protective bits, set after the text was written.
C18_ProtectOrdering ==
    (last.op = "write" /\ last.res = "written")
    => /\ last.had => /\ last.atopen % 4 = 0
                      /\ OtherBits(last.atopen) = OtherBits(last.pre)
                      /\ OtherBits(sumAttrs) = OtherBits(last.pre)
       /\ ~last.had => last.atopen = NewFileAttrs
       /\ wrote /\ sumSt = "present" /\ sumText = SumfileText(checksums)
       /\ sumAttrs = last.atopen + 3

\* C18 witness: write_sumfile has rewritten a manifest that was protected and
\* carried FILE_ATTRIBUTE_SYSTEM; it carries the same bits again.
C18_Witness ==
    /\ last.op = "write" /\ last.res = "written" /\ last.had
    /\ last.pre = ProtectBits(NewFileAttrs) + 4
    /\ last.atopen = NewFileAttrs + 4
    /\ sumAttrs = last.pre
    /\ checksums # <<>>

\* C19: when a refresh run wrote the manifest while a file with an entry,
\* newer than the manifest, could not be read, the next run, if it is a
\* refresh run in which the file is readable and has the same modification
\* time, calls get_checksum for it before its loop over the files ends.
C19_StalenessKept ==
    (/\ args.create /\ args.refresh
     /\ prevArgs.create /\ prevArgs.refresh
     /\ owed.run = run - 1
     /\ lastEnvRun < run
     /\ pc = "write")
    => \A o \in owed.names :
          (fs[o[1]].st = "ok" /\ fs[o[1]].mtime = o[2]) => o[1] \in called

\* The filenames of the lines of a manifest text that are entries.
EntryNames(text) ==
    {ParseLine(SplitLines(text)[i])[2] :
        i \in {j \in 1..Len(SplitLines(text)) : ParseLine(SplitLines(text)[j])[1] = "entry"}}

\* The last call of read_sumfile of the run.
LastLoad == loads[Len(loads)]

\* C20: in verify, every entry the loop checks names a path that existed when
\* its manifest was loaded, and ? is printed for it only if get_checksum found
\* the file gone; an entry whose path did not exist at the load is not in the
\* mapping, so no line of the report names a file that existed at no load of
\* the run.
C20_MissingOnlyAfterLoad ==
    args.verify
    => /\ last.op = "ventry"
          => /\ loads # <<>> /\ LastLoad.exc = ""
             /\ last.f \in LastLoad.exists
             /\ Keys(checksums) \subseteq LastLoad.exists
             /\ (\E i \in 1..Len(last.printed) : last.printed[i] = "?")
                => (last.res = "FileNotFoundError" /\ StOf(last.f) = "gone")
       /\ (last.op = "vopen" /\ last.res = "loaded")
          => \A n \in EntryNames(TextOf(last.f)) :
                n \in Keys(checksums) <=> n \in LastLoad.exists
       /\ \A i \in 1..Len(out) :
             out[i][2] \notin {SUMFILE_NAME, OtherSum}
             => \E k \in 1..Len(loads) : loads[k].exc = "" /\ out[i][2] \in loads[k].exists

\* C20 witness: verify printed ? for the file a, which existed when the
\* manifest was loaded and was deleted before it was hashed.
C20_Witness ==
    /\ args.verify /\ last.op = "ventry" /\ last.f = NameA
    /\ last.res = "FileNotFoundError"
    /\ last.printed # <<>> /\ last.printed[1] = "?"
    /\ NameA \in LastLoad.exists
    /\ StOf(NameA) = "gone"

=============================================================================
